---- MODULE Spec2Model ----
(***************************************************************************)
(* A model of the Daikin wifi-module client (src/daikin.go): the typed     *)
(* field codecs, the CSV response parser, the three record populators,     *)
(* the query-string builder and the four session operations.               *)
(*                                                                         *)
(* Go strings are modelled as sequences of one-character strings, so that  *)
(* parsing and formatting are computed character by character.             *)
(***************************************************************************)
EXTENDS Integers, Sequences, FiniteSets, TLC

VARIABLES
    d,      \* the Daikin session: Address, Token, Name and the three records
    pre,    \* the session as it was when the last operation was called
    op,     \* the last operation applied
    arg,    \* the input the last operation was given
    res     \* what the last operation returned

vars == <<d, pre, op, arg, res>>

(***************************************************************************)
(* Bounds of the model.                                                    *)
(***************************************************************************)
\* longest wire token built from TokenAlphabet
MaxTokLen == 2
\* longest response body built from BodyAlphabet
MaxBodyLen == 4
\* largest number of keys in a generated wire record
MaxKeys == 2

(***************************************************************************)
(* Characters.                                                             *)
(***************************************************************************)
DigitChars == <<"0", "1", "2", "3", "4", "5", "6", "7", "8", "9">>
UpperChars == <<"A", "B", "C", "D", "E", "F", "G", "H", "I", "J", "K", "L", "M",
                "N", "O", "P", "Q", "R", "S", "T", "U", "V", "W", "X", "Y", "Z">>
LowerChars == <<"a", "b", "c", "d", "e", "f", "g", "h", "i", "j", "k", "l", "m",
                "n", "o", "p", "q", "r", "s", "t", "u", "v", "w", "x", "y", "z">>
HexChars == <<"0", "1", "2", "3", "4", "5", "6", "7", "8", "9",
              "A", "B", "C", "D", "E", "F">>

Range(s) == {s[i] : i \in 1..Len(s)}

IsDigit(c) == c \in Range(DigitChars)
DigitVal(c) == CHOOSE i \in 0..9 : DigitChars[i + 1] = c

Punctuation == {"\n", " ", "\"", "+", ",", "-", ".", "/", "=", "_", "~"}
Chars == Range(DigitChars) \cup Range(UpperChars) \cup Range(LowerChars) \cup Punctuation

\* the byte value of each character
AsciiTable ==
    [c \in Chars |->
        CASE c \in Range(DigitChars) -> 47 + (CHOOSE i \in 1..10 : DigitChars[i] = c)
          [] c \in Range(UpperChars) -> 64 + (CHOOSE i \in 1..26 : UpperChars[i] = c)
          [] c \in Range(LowerChars) -> 96 + (CHOOSE i \in 1..26 : LowerChars[i] = c)
          [] c = "\n" -> 10
          [] c = " " -> 32
          [] c = "\"" -> 34
          [] c = "+" -> 43
          [] c = "," -> 44
          [] c = "-" -> 45
          [] c = "." -> 46
          [] c = "/" -> 47
          [] c = "=" -> 61
          [] c = "_" -> 95
          [] c = "~" -> 126]

Ascii(c) == AsciiTable[c]

\* byte-wise comparison of two Go strings (s < t)
RECURSIVE StrLess(_, _)
StrLess(s, t) ==
    IF t = <<>> THEN FALSE
    ELSE IF s = <<>> THEN TRUE
    ELSE IF Ascii(Head(s)) # Ascii(Head(t)) THEN Ascii(Head(s)) < Ascii(Head(t))
    ELSE StrLess(Tail(s), Tail(t))

\* all strings over the alphabet S of length at most n
SeqsUpTo(S, n) == UNION {[1..k -> S] : k \in 0..n}

(***************************************************************************)
(* Errors.  A Go error is its kind and the token or code it carries.       *)
(***************************************************************************)
Err(kind, detail) == [kind |-> kind, detail |-> detail]
NoErr == Err("nil", <<>>)
Panic == Err("panic", <<>>)

(***************************************************************************)
(* strconv.Atoi on a 64-bit build.  The parsed value is kept as a sign and *)
(* a magnitude of four 16-bit limbs (least significant first), so that     *)
(* values outside the 32-bit range are represented exactly.                *)
(***************************************************************************)
Base == 2 ^ 16
ZeroMag == <<0, 0, 0, 0>>

\* m * 10 + dv on a 64-bit unsigned magnitude; ovf when the result needs 65 bits
MulAdd(m, dv) ==
    LET t1 == m[1] * 10 + dv
        t2 == m[2] * 10 + (t1 \div Base)
        t3 == m[3] * 10 + (t2 \div Base)
        t4 == m[4] * 10 + (t3 \div Base)
    IN  [mag |-> <<t1 % Base, t2 % Base, t3 % Base, t4 % Base>>,
         ovf |-> (t4 \div Base) > 0]

\* the digits of s from position i on, accumulated into acc
RECURSIVE ParseUintFrom(_, _, _)
ParseUintFrom(s, i, acc) ==
    IF i > Len(s) THEN [err |-> FALSE, mag |-> acc]
    ELSE IF ~IsDigit(s[i]) THEN [err |-> TRUE, mag |-> ZeroMag]
    ELSE LET r == MulAdd(acc, DigitVal(s[i]))
         IN  IF r.ovf THEN [err |-> TRUE, mag |-> ZeroMag]
             ELSE ParseUintFrom(s, i + 1, r.mag)

\* strconv.Atoi: an optional sign, then decimal digits, within the int64 range
Atoi(s) ==
    LET signed == s # <<>> /\ s[1] \in {"+", "-"}
        neg == s # <<>> /\ s[1] = "-"
        body == IF signed THEN Tail(s) ELSE s
        u == ParseUintFrom(body, 1, ZeroMag)
        top == u.mag[4] >= Base \div 2
        isMin == u.mag = <<0, 0, 0, Base \div 2>>
        bad == [err |-> TRUE, neg |-> FALSE, mag |-> ZeroMag]
    IN  IF body = <<>> \/ u.err THEN bad
        ELSE IF top /\ ~(neg /\ isMin) THEN bad
        ELSE [err |-> FALSE, neg |-> neg /\ u.mag # ZeroMag, mag |-> u.mag]

\* whether the parsed integer n is one of the small non-negative values in S
IntIn(n, S) ==
    /\ ~n.neg
    /\ n.mag[2] = 0 /\ n.mag[3] = 0 /\ n.mag[4] = 0
    /\ n.mag[1] \in S

\* the conversion of an int to a 32-bit type: the low 32 bits, as a signed value
Int32Of(n) ==
    LET lo == IF n.neg THEN (Base - n.mag[1]) % Base ELSE n.mag[1]
        hi == IF n.neg
              THEN (Base - 1 - n.mag[2] + (IF n.mag[1] = 0 THEN 1 ELSE 0)) % Base
              ELSE n.mag[2]
    IN  IF hi >= Base \div 2 THEN (hi - Base) * Base + lo ELSE hi * Base + lo

\* the int value of a 32-bit v, in the representation Atoi returns
Widen(v) ==
    IF v >= 0 THEN [err |-> FALSE, neg |-> FALSE,
                    mag |-> <<v % Base, v \div Base, 0, 0>>]
    ELSE LET u == -(v + 1)
             l == (u % Base) + 1
         IN  [err |-> FALSE, neg |-> TRUE,
              mag |-> <<l % Base, (u \div Base) + (l \div Base), 0, 0>>]

\* strconv.Itoa of a value that fits 32 bits
RECURSIVE NatDigits(_)
NatDigits(v) ==
    IF v < 10 THEN <<DigitChars[v + 1]>>
    ELSE NatDigits(v \div 10) \o <<DigitChars[(v % 10) + 1]>>

RECURSIVE NegDigits(_)
NegDigits(v) ==
    IF v = 0 THEN <<>>
    ELSE LET ld == (10 - (v % 10)) % 10
         IN  NegDigits((v + ld) \div 10) \o <<DigitChars[ld + 1]>>

Itoa(v) == IF v >= 0 THEN NatDigits(v) ELSE <<"-">> \o NegDigits(v)

(***************************************************************************)
(* strconv.ParseFloat, for the decimal forms [sign] digits [. digits].     *)
(* The value is kept exactly, as its sign, its integer digits without      *)
(* leading zeros and its fraction digits without trailing zeros.  The      *)
(* exponent, hexadecimal, "inf" and "nan" forms use letters that no token  *)
(* of this model contains.                                                 *)
(***************************************************************************)
RECURSIVE StripLeadingZeros(_)
StripLeadingZeros(s) ==
    IF s # <<>> /\ Head(s) = "0" THEN StripLeadingZeros(Tail(s)) ELSE s

RECURSIVE StripTrailingZeros(_)
StripTrailingZeros(s) ==
    IF s # <<>> /\ s[Len(s)] = "0"
    THEN StripTrailingZeros(SubSeq(s, 1, Len(s) - 1)) ELSE s

ZeroFloat == [neg |-> FALSE, int |-> <<>>, frac |-> <<>>]

ParseFloat(s) ==
    LET signed == s # <<>> /\ s[1] \in {"+", "-"}
        neg == s # <<>> /\ s[1] = "-"
        body == IF signed THEN Tail(s) ELSE s
        dots == {i \in 1..Len(body) : body[i] = "."}
        dot == IF dots = {} THEN Len(body) + 1 ELSE CHOOSE i \in dots : TRUE
        ip == SubSeq(body, 1, dot - 1)
        fp == SubSeq(body, dot + 1, Len(body))
        ok == /\ Cardinality(dots) <= 1
              /\ \A i \in 1..Len(body) : IsDigit(body[i]) \/ body[i] = "."
              /\ Len(ip) + Len(fp) >= 1
    IN  IF ok THEN [err |-> FALSE,
                    val |-> [neg |-> neg, int |-> StripLeadingZeros(ip),
                             frac |-> StripTrailingZeros(fp)]]
        ELSE [err |-> TRUE, val |-> ZeroFloat]

\* strconv.FormatFloat(f, 'f', 1, 64) of a value with at most one fraction digit
FormatFloat1(t) ==
    (IF t.neg THEN <<"-">> ELSE <<>>)
        \o (IF t.int = <<>> THEN <<"0">> ELSE t.int)
        \o <<".">>
        \o (CASE Len(t.frac) = 0 -> <<"0">>
              [] Len(t.frac) = 1 -> t.frac)

(***************************************************************************)
(* The field codecs.  decode(old, s) is the method called on a field that  *)
(* holds old: it returns the error and the value the field holds after.    *)
(* setUrlValues(v) is the (key, token) pair the method sets.               *)
(***************************************************************************)
returnOk == <<"O", "K">>
returnBad == <<"P", "A", "R", "A", "M", " ", "N", "G">>

PowerOff == 0
PowerOn == 1

Power_setUrlValues(p) == <<<<"p", "o", "w">>, Itoa(p)>>

Power_decode(old, s) ==
    CASE s = <<"0">> -> [err |-> NoErr, val |-> PowerOff]
      [] s = <<"1">> -> [err |-> NoErr, val |-> PowerOn]
      [] OTHER -> [err |-> Err("decode", s), val |-> old]

ModeDehumidify == 2
ModeCool == 3
ModeHeat == 4
ModeFan == 6
ModeAuto == 0
ModeAuto1 == 1
ModeAuto7 == 7

modeMap ==
    (ModeDehumidify :> "Dehumidify") @@ (ModeCool :> "Cool") @@ (ModeHeat :> "Heat")
        @@ (ModeFan :> "Fan") @@ (ModeAuto :> "Auto") @@ (ModeAuto1 :> "Auto")
        @@ (ModeAuto7 :> "Auto")

Mode_String(m) == IF m \in DOMAIN modeMap THEN modeMap[m] ELSE "Unknown Mode"

Mode_setUrlValues(m) == <<<<"m", "o", "d", "e">>, Itoa(m)>>

Mode_decode_collapsed(old, s) ==
    CASE s = <<"2">> -> [err |-> NoErr, val |-> ModeDehumidify]
      [] s = <<"3">> -> [err |-> NoErr, val |-> ModeCool]
      [] s = <<"4">> -> [err |-> NoErr, val |-> ModeHeat]
      [] s = <<"6">> -> [err |-> NoErr, val |-> ModeFan]
      [] s \in {<<"0">>, <<"1">>, <<"7">>} -> [err |-> NoErr, val |-> ModeAuto]
      [] OTHER -> [err |-> Err("decode", s), val |-> old]

Mode_decode(old, s) ==
    CASE s = <<"2">> -> [err |-> NoErr, val |-> ModeDehumidify]
      [] s = <<"3">> -> [err |-> NoErr, val |-> ModeCool]
      [] s = <<"4">> -> [err |-> NoErr, val |-> ModeHeat]
      [] s = <<"6">> -> [err |-> NoErr, val |-> ModeFan]
      [] s = <<"0">> -> [err |-> NoErr, val |-> ModeAuto]
      [] s = <<"1">> -> [err |-> NoErr, val |-> ModeAuto1]
      [] s = <<"7">> -> [err |-> NoErr, val |-> ModeAuto7]
      [] OTHER -> [err |-> Err("decode", s), val |-> old]

FanAuto == <<"A">>
FanSilent == <<"B">>
Fan1 == <<"3">>
Fan2 == <<"4">>
Fan3 == <<"5">>
Fan4 == <<"6">>
Fan5 == <<"7">>

Fan_setUrlValues(f) == <<<<"f", "_", "r", "a", "t", "e">>, f>>

Fan_decode(old, s) ==
    CASE s = <<"A">> -> [err |-> NoErr, val |-> FanAuto]
      [] s = <<"B">> -> [err |-> NoErr, val |-> FanSilent]
      [] s = <<"3">> -> [err |-> NoErr, val |-> Fan1]
      [] s = <<"4">> -> [err |-> NoErr, val |-> Fan2]
      [] s = <<"5">> -> [err |-> NoErr, val |-> Fan3]
      [] s = <<"6">> -> [err |-> NoErr, val |-> Fan4]
      [] s = <<"7">> -> [err |-> NoErr, val |-> Fan5]
      [] OTHER -> [err |-> Err("decode", s), val |-> old]

FanDirStopped == 0
FanDirVertical == 1
FanDirHorizontal == 2
FanDirBoth == 3

fanDirMap ==
    (FanDirStopped :> "Stopped") @@ (FanDirVertical :> "Vertical")
        @@ (FanDirHorizontal :> "Horizontal") @@ (FanDirBoth :> "Both")

FanDir_setUrlValues(f) == <<<<"f", "_", "d", "i", "r">>, Itoa(f)>>

FanDir_decode(old, s) ==
    LET v == Atoi(s)
    IN  IF v.err THEN [err |-> Err("decode", s), val |-> old]
        ELSE IF ~IntIn(v, DOMAIN fanDirMap)
             THEN [err |-> Err("decode", s), val |-> old]
             ELSE [err |-> NoErr, val |-> v.mag[1]]

Temperature_String(t) == FormatFloat1(t)

Temperature_setUrlValues(t) == <<<<"s", "t", "e", "m", "p">>, Temperature_String(t)>>

Temperature_decode(old, v) ==
    LET r == ParseFloat(v)
    IN  IF r.err THEN [err |-> Err("decode", v), val |-> old]
        ELSE [err |-> NoErr, val |-> r.val]

Humidity_String(h) == Itoa(h)

Humidity_setUrlValues(h) == <<<<"s", "h", "u", "m">>, Humidity_String(h)>>

\* the "-" sentinel is rewritten to "-1" before the token is parsed
Sentinel(v) == IF v = <<"-">> THEN <<"-", "1">> ELSE v

Humidity_decode(old, v) ==
    LET r == Atoi(Sentinel(v))
    IN  IF r.err THEN [err |-> Err("decode", Sentinel(v)), val |-> old]
        ELSE [err |-> NoErr, val |-> Int32Of(r)]

WattHours_decode(old, v) ==
    LET r == Atoi(Sentinel(v))
    IN  IF r.err THEN [err |-> Err("decode", Sentinel(v)), val |-> old]
        ELSE [err |-> NoErr, val |-> Int32Of(r)]

Minutes_decode(old, v) ==
    LET r == Atoi(Sentinel(v))
    IN  IF r.err THEN [err |-> Err("decode", Sentinel(v)), val |-> old]
        ELSE [err |-> NoErr, val |-> Int32Of(r)]

(***************************************************************************)
(* The records and their populate methods.  A wire record (Go's            *)
(* map[string]string) is a function from keys to values; `order` is the    *)
(* order in which the range statement visits its keys, which Go leaves     *)
(* unspecified.                                                            *)
(***************************************************************************)
K_pow == <<"p", "o", "w">>
K_mode == <<"m", "o", "d", "e">>
K_stemp == <<"s", "t", "e", "m", "p">>
K_shum == <<"s", "h", "u", "m">>
K_f_rate == <<"f", "_", "r", "a", "t", "e">>
K_f_dir == <<"f", "_", "d", "i", "r">>
K_htemp == <<"h", "t", "e", "m", "p">>
K_otemp == <<"o", "t", "e", "m", "p">>
K_hhum == <<"h", "h", "u", "m">>
K_today_runtime == <<"t", "o", "d", "a", "y", "_", "r", "u", "n", "t", "i", "m", "e">>
K_datas == <<"d", "a", "t", "a", "s">>
K_ret == <<"r", "e", "t">>

\* every order in which the keys of S can be visited
RECURSIVE Orders(_)
Orders(S) ==
    IF S = {} THEN {<<>>}
    ELSE UNION {{<<x>> \o o : o \in Orders(S \ {x})} : x \in S}

\* strings.Split(s, sep) for a one-character separator
RECURSIVE Split(_, _)
Split(s, sep) ==
    LET hits == {i \in 1..Len(s) : s[i] = sep}
    IN  IF hits = {} THEN <<s>>
        ELSE LET i == CHOOSE j \in hits : \A k \in hits : j <= k
             IN  <<SubSeq(s, 1, i - 1)>> \o Split(SubSeq(s, i + 1, Len(s)), sep)

\* the `ret` case shared by the three populate methods
RetCheck(v) == IF v # returnOk THEN Err("device", v) ELSE NoErr

ZeroSensorInfo ==
    [HomeTemperature |-> ZeroFloat, OutsideTemperature |-> ZeroFloat, Humidity |-> 0]

\* one iteration of the loop of SensorInfo.populate
SensorInfo_case(s, k, v) ==
    CASE k = K_htemp ->
            LET r == Temperature_decode(s.HomeTemperature, v)
            IN  [err |-> r.err, rec |-> [s EXCEPT !.HomeTemperature = r.val]]
      [] k = K_otemp ->
            LET r == Temperature_decode(s.OutsideTemperature, v)
            IN  [err |-> r.err, rec |-> [s EXCEPT !.OutsideTemperature = r.val]]
      [] k = K_hhum ->
            LET r == Humidity_decode(s.Humidity, v)
            IN  [err |-> r.err, rec |-> [s EXCEPT !.Humidity = r.val]]
      [] k = K_ret -> [err |-> RetCheck(v), rec |-> s]
      [] OTHER -> [err |-> NoErr, rec |-> s]

RECURSIVE SensorInfo_populate(_, _, _)
SensorInfo_populate(s, values, order) ==
    IF order = <<>> THEN [err |-> NoErr, rec |-> s]
    ELSE LET r == SensorInfo_case(s, Head(order), values[Head(order)])
         IN  IF r.err # NoErr THEN r
             ELSE SensorInfo_populate(r.rec, values, Tail(order))

ZeroControlInfo ==
    [Power |-> 0, Mode |-> 0, Fan |-> <<>>, FanDir |-> 0,
     Temperature |-> ZeroFloat, Humidity |-> 0]

\* the `ret` case with the comparison dropped
ControlInfo_case_noret(c, k, v) ==
    CASE k = K_pow ->
            LET r == Power_decode(c.Power, v)
            IN  [err |-> r.err, rec |-> [c EXCEPT !.Power = r.val]]
      [] k = K_mode ->
            LET r == Mode_decode(c.Mode, v)
            IN  [err |-> r.err, rec |-> [c EXCEPT !.Mode = r.val]]
      [] k = K_stemp ->
            LET r == Temperature_decode(c.Temperature, v)
            IN  [err |-> r.err, rec |-> [c EXCEPT !.Temperature = r.val]]
      [] k = K_shum ->
            LET r == Humidity_decode(c.Humidity, v)
            IN  [err |-> r.err, rec |-> [c EXCEPT !.Humidity = r.val]]
      [] k = K_f_rate ->
            LET r == Fan_decode(c.Fan, v)
            IN  [err |-> r.err, rec |-> [c EXCEPT !.Fan = r.val]]
      [] k = K_f_dir ->
            LET r == FanDir_decode(c.FanDir, v)
            IN  [err |-> r.err, rec |-> [c EXCEPT !.FanDir = r.val]]
      [] OTHER -> [err |-> NoErr, rec |-> c]

\* one iteration of the loop of ControlInfo.populate
ControlInfo_case(c, k, v) ==
    CASE k = K_pow ->
            LET r == Power_decode(c.Power, v)
            IN  [err |-> r.err, rec |-> [c EXCEPT !.Power = r.val]]
      [] k = K_mode ->
            LET r == Mode_decode(c.Mode, v)
            IN  [err |-> r.err, rec |-> [c EXCEPT !.Mode = r.val]]
      [] k = K_stemp ->
            LET r == Temperature_decode(c.Temperature, v)
            IN  [err |-> r.err, rec |-> [c EXCEPT !.Temperature = r.val]]
      [] k = K_shum ->
            LET r == Humidity_decode(c.Humidity, v)
            IN  [err |-> r.err, rec |-> [c EXCEPT !.Humidity = r.val]]
      [] k = K_f_rate ->
            LET r == Fan_decode(c.Fan, v)
            IN  [err |-> r.err, rec |-> [c EXCEPT !.Fan = r.val]]
      [] k = K_f_dir ->
            LET r == FanDir_decode(c.FanDir, v)
            IN  [err |-> r.err, rec |-> [c EXCEPT !.FanDir = r.val]]
      [] k = K_ret -> [err |-> RetCheck(v), rec |-> c]
      [] OTHER -> [err |-> NoErr, rec |-> c]

RECURSIVE ControlInfo_populate(_, _, _)
ControlInfo_populate(c, values, order) ==
    IF order = <<>> THEN [err |-> NoErr, rec |-> c]
    ELSE LET r == ControlInfo_case(c, Head(order), values[Head(order)])
         IN  IF r.err # NoErr THEN r
             ELSE ControlInfo_populate(r.rec, values, Tail(order))

ZeroWeekPower ==
    [TodayRuntime |-> 0, TodayWattHours |-> 0, YesterdayWattHours |-> 0,
     ThreeDaysAgoWattHours |-> 0, FourDaysAgoWattHours |-> 0,
     FiveDaysAgoWattHours |-> 0, SixDaysAgoWattHours |-> 0,
     SevenDaysAgoWattHours |-> 0]

\* the `datas` case with the last element left for a separate key
WeekPower_datas_sixonly(w, elems) ==
    [w EXCEPT
        !.SevenDaysAgoWattHours = WattHours_decode(@, elems[1]).val,
        !.SixDaysAgoWattHours = WattHours_decode(@, elems[2]).val,
        !.FiveDaysAgoWattHours = WattHours_decode(@, elems[3]).val,
        !.FourDaysAgoWattHours = WattHours_decode(@, elems[4]).val,
        !.ThreeDaysAgoWattHours = WattHours_decode(@, elems[5]).val,
        !.YesterdayWattHours = WattHours_decode(@, elems[6]).val]

\* the seven decode calls of the `datas` case; their errors are not looked at
WeekPower_datas(w, elems) ==
    [w EXCEPT
        !.SevenDaysAgoWattHours = WattHours_decode(@, elems[1]).val,
        !.SixDaysAgoWattHours = WattHours_decode(@, elems[2]).val,
        !.FiveDaysAgoWattHours = WattHours_decode(@, elems[3]).val,
        !.FourDaysAgoWattHours = WattHours_decode(@, elems[4]).val,
        !.ThreeDaysAgoWattHours = WattHours_decode(@, elems[5]).val,
        !.YesterdayWattHours = WattHours_decode(@, elems[6]).val,
        !.TodayWattHours = WattHours_decode(@, elems[7]).val]

\* one iteration of the loop of WeekPower.populate
WeekPower_case(w, k, v) ==
    CASE k = K_today_runtime ->
            LET r == Minutes_decode(w.TodayRuntime, v)
            IN  [err |-> r.err, rec |-> [w EXCEPT !.TodayRuntime = r.val]]
      [] k = K_datas ->
            LET elems == Split(v, "/")
            IN  IF Len(elems) # 7
                THEN [err |-> Err("datas", Itoa(Len(elems))), rec |-> w]
                ELSE [err |-> NoErr, rec |-> WeekPower_datas(w, elems)]
      [] k = K_ret -> [err |-> RetCheck(v), rec |-> w]
      [] OTHER -> [err |-> NoErr, rec |-> w]

RECURSIVE WeekPower_populate(_, _, _)
WeekPower_populate(w, values, order) ==
    IF order = <<>> THEN [err |-> NoErr, rec |-> w]
    ELSE LET r == WeekPower_case(w, Head(order), values[Head(order)])
         IN  IF r.err # NoErr THEN r
             ELSE WeekPower_populate(r.rec, values, Tail(order))

(***************************************************************************)
(* encoding/csv's ReadAll with the default Reader (comma separator, no     *)
(* comment character, strict quotes), for bodies without carriage returns. *)
(***************************************************************************)
\* the position of the first c in s, or 0
IndexOf(s, c) ==
    LET hits == {i \in 1..Len(s) : s[i] = c}
    IN  IF hits = {} THEN 0 ELSE CHOOSE j \in hits : \A k \in hits : j <= k

CsvError == [err |-> TRUE, fields |-> <<>>, rest |-> <<>>]

RECURSIVE ParseFields(_, _)
RECURSIVE ParseQuoted(_, _, _)

\* the fields of one record, from a field's first character on
ParseFields(s, fields) ==
    IF s = <<>> \/ Head(s) # "\""
    THEN \* a non-quoted field ends at the next comma of the line, or at its end
         LET nl == IndexOf(s, "\n")
             line == IF nl = 0 THEN s ELSE SubSeq(s, 1, nl - 1)
             rest == IF nl = 0 THEN <<>> ELSE SubSeq(s, nl + 1, Len(s))
             i == IndexOf(line, ",")
             field == IF i = 0 THEN line ELSE SubSeq(line, 1, i - 1)
         IN  IF "\"" \in Range(field) THEN CsvError
             ELSE IF i # 0
                  THEN ParseFields(SubSeq(s, i + 1, Len(s)), Append(fields, field))
                  ELSE [err |-> FALSE, fields |-> Append(fields, field), rest |-> rest]
    ELSE ParseQuoted(Tail(s), <<>>, fields)

\* a quoted field, from the character after a quote on; acc is what was read of it
ParseQuoted(s, acc, fields) ==
    LET i == IndexOf(s, "\"")
        got == acc \o SubSeq(s, 1, i - 1)
        r == SubSeq(s, i + 1, Len(s))
    IN  IF i = 0 THEN CsvError
        ELSE IF r # <<>> /\ Head(r) = "\""
             THEN ParseQuoted(Tail(r), Append(got, "\""), fields)
        ELSE IF r # <<>> /\ Head(r) = ","
             THEN ParseFields(Tail(r), Append(fields, got))
        ELSE IF r = <<>> \/ Head(r) = "\n"
             THEN [err |-> FALSE, fields |-> Append(fields, got),
                   rest |-> IF r = <<>> THEN <<>> ELSE Tail(r)]
        ELSE CsvError

\* the records of s after those of acc; empty lines are skipped, and every
\* record must have as many fields as the first
RECURSIVE ReadRecords(_, _)
ReadRecords(s, acc) ==
    IF s = <<>> THEN [err |-> FALSE, records |-> acc]
    ELSE IF Head(s) = "\n" THEN ReadRecords(Tail(s), acc)
    ELSE LET r == ParseFields(s, <<>>)
         IN  IF r.err \/ (acc # <<>> /\ Len(r.fields) # Len(acc[1]))
             THEN [err |-> TRUE, records |-> <<>>]
             ELSE ReadRecords(r.rest, Append(acc, r.fields))

ReadAll(body) == ReadRecords(body, <<>>)

(***************************************************************************)
(* Daikin.parseResponse.  The result is the error and the mapping; an      *)
(* index out of range is the error Panic.                                  *)
(***************************************************************************)
EmptyValues == <<>>

\* strings.SplitN(rec, "=", 2)
SplitN2(rec) ==
    LET i == IndexOf(rec, "=")
    IN  IF i = 0 THEN <<rec>>
        ELSE <<SubSeq(rec, 1, i - 1), SubSeq(rec, i + 1, Len(rec))>>

\* the loop over records[0] from field i on
RECURSIVE FillValues(_, _, _)
FillValues(fields, i, values) ==
    IF i > Len(fields) THEN [err |-> NoErr, values |-> values]
    ELSE LET parts == SplitN2(fields[i])
         IN  IF Len(parts) < 2 THEN [err |-> Panic, values |-> EmptyValues]
             ELSE FillValues(fields, i + 1, (parts[1] :> parts[2]) @@ values)

parseResponse(resp) ==
    IF ~resp.readable THEN [err |-> Err("read", <<>>), values |-> EmptyValues]
    ELSE LET r == ReadAll(resp.body)
         IN  IF r.err THEN [err |-> Err("malformed", <<>>), values |-> EmptyValues]
             ELSE IF Len(r.records) # 1
                  THEN [err |-> Err("malformed", Itoa(Len(r.records))),
                        values |-> EmptyValues]
                  ELSE FillValues(r.records[1], 1, EmptyValues)

(***************************************************************************)
(* ControlInfo.urlValues and url.Values.Encode.                            *)
(***************************************************************************)
\* url.Values.Set on a map that holds one value per key
Values_Set(v, pair) == (pair[1] :> pair[2]) @@ v

\* urlValues without the call for the Humidity field
urlValues_nohum(c) ==
    LET q0 == EmptyValues
        q1 == Values_Set(q0, Power_setUrlValues(c.Power))
        q2 == Values_Set(q1, Mode_setUrlValues(c.Mode))
        q3 == Values_Set(q2, Fan_setUrlValues(c.Fan))
        q4 == Values_Set(q3, FanDir_setUrlValues(c.FanDir))
        q5 == Values_Set(q4, Temperature_setUrlValues(c.Temperature))
    IN  q5

urlValues(c) ==
    LET q0 == EmptyValues
        q1 == Values_Set(q0, Power_setUrlValues(c.Power))
        q2 == Values_Set(q1, Mode_setUrlValues(c.Mode))
        q3 == Values_Set(q2, Fan_setUrlValues(c.Fan))
        q4 == Values_Set(q3, FanDir_setUrlValues(c.FanDir))
        q5 == Values_Set(q4, Temperature_setUrlValues(c.Temperature))
        q6 == Values_Set(q5, Humidity_setUrlValues(c.Humidity))
    IN  q6

\* url.QueryEscape
Unreserved ==
    Range(DigitChars) \cup Range(UpperChars) \cup Range(LowerChars)
        \cup {"-", "_", ".", "~"}

RECURSIVE QueryEscape(_)
QueryEscape(s) ==
    IF s = <<>> THEN <<>>
    ELSE LET c == Head(s)
             e == IF c \in Unreserved THEN <<c>>
                  ELSE IF c = " " THEN <<"+">>
                  ELSE <<"%", HexChars[(Ascii(c) \div 16) + 1],
                         HexChars[(Ascii(c) % 16) + 1]>>
         IN  e \o QueryEscape(Tail(s))

\* the keys of S in ascending order, as Encode sorts them
RECURSIVE SortedKeys(_)
SortedKeys(S) ==
    IF S = {} THEN <<>>
    ELSE LET m == CHOOSE x \in S : \A y \in S \ {x} : StrLess(x, y)
         IN  <<m>> \o SortedKeys(S \ {m})

RECURSIVE EncodeFrom(_, _, _)
EncodeFrom(v, keys, i) ==
    IF i > Len(keys) THEN <<>>
    ELSE (IF i > 1 THEN <<"&">> ELSE <<>>)
            \o QueryEscape(keys[i]) \o <<"=">> \o QueryEscape(v[keys[i]])
            \o EncodeFrom(v, keys, i + 1)

Values_Encode(v) == EncodeFrom(v, SortedKeys(DOMAIN v), 1)

(***************************************************************************)
(* The inputs of the model.                                                *)
(***************************************************************************)
TokenAlphabet == {"0", "1", "2", "3", "4", "5", "6", "7", "8", "A", "B", "+", "-"}

T_50 == <<"5", "0">>
T_23_0 == <<"2", "3", ".", "0">>
T_21_5 == <<"2", "1", ".", "5">>
T_15_0 == <<"1", "5", ".", "0">>
T_45 == <<"4", "5">>
T_85 == <<"8", "5">>
T_MaxInt32 == <<"2", "1", "4", "7", "4", "8", "3", "6", "4", "7">>
T_MinInt32 == <<"-", "2", "1", "4", "7", "4", "8", "3", "6", "4", "8">>
T_AboveInt32 == <<"2", "1", "4", "7", "4", "8", "3", "6", "4", "8">>
T_BelowInt32 == <<"-", "2", "1", "4", "7", "4", "8", "3", "6", "4", "9">>
T_Wraps50 == <<"4", "2", "9", "4", "9", "6", "7", "3", "4", "6">>
T_AboveInt64 == <<"9", "2", "2", "3", "3", "7", "2", "0", "3", "6", "8", "5", "4", "7",
                  "7", "5", "8", "0", "8">>
T_Week == <<"5", "2", "0", "0", "/", "3", "8", "0", "0", "/", "5", "3", "0", "0", "/",
            "1", "8", "0", "0", "/", "2", "9", "0", "0", "/", "3", "9", "0", "0", "/",
            "1", "1", "0", "0">>
T_Week6 == <<"1", "/", "2", "/", "3", "/", "4", "/", "5", "/", "6">>
T_Week8 == <<"1", "/", "2", "/", "3", "/", "4", "/", "5", "/", "6", "/", "7", "/", "8">>
T_WeekBad == <<"1", "/", "2", "/", "x", "/", "4", "/", "5", "/", "6", "/", "7">>
T_WeekUnset == <<"-", "/", "-", "/", "-", "/", "-", "/", "-", "/", "-", "/", "-">>

\* the tokens the codecs are applied to
Tokens ==
    SeqsUpTo(TokenAlphabet, MaxTokLen)
        \cup {T_50, T_23_0, T_21_5, T_45, T_MaxInt32, T_MinInt32, T_AboveInt32,
              T_BelowInt32, T_Wraps50, T_AboveInt64, returnOk, returnBad}

PowerValues == {PowerOff, PowerOn}
ModeValues == DOMAIN modeMap
FanValues == {FanAuto, FanSilent, Fan1, Fan2, Fan3, Fan4, Fan5}
FanDirValues == DOMAIN fanDirMap

\* the bodies the response parser is applied to
BodyAlphabet == {"a", "=", ",", "\n", "\""}
Bodies == SeqsUpTo(BodyAlphabet, MaxBodyLen)

\* the wire records the populate methods are applied to
K_adv == <<"a", "d", "v">>
ControlKeys == {K_pow, K_mode, K_stemp, K_shum, K_f_rate, K_f_dir, K_ret, K_adv}
SensorKeys == {K_htemp, K_otemp, K_hhum, K_ret, K_adv}
WeekKeys == {K_today_runtime, K_datas, K_ret, K_adv}

ValTokens == {returnOk, returnBad, <<"1">>, <<"A">>, <<"-">>, T_21_5}
DatasTokens == {T_Week, T_Week6, T_Week8, T_WeekBad, T_WeekUnset, <<"1">>}
ValsFor(k) == IF k = K_datas THEN DatasTokens ELSE ValTokens

FullControl ==
    (K_ret :> returnOk) @@ (K_pow :> <<"1">>) @@ (K_mode :> <<"3">>)
        @@ (K_stemp :> T_23_0) @@ (K_shum :> <<"-">>) @@ (K_f_rate :> <<"A">>)
        @@ (K_f_dir :> <<"3">>)
FullSensor ==
    (K_ret :> returnOk) @@ (K_htemp :> T_21_5) @@ (K_otemp :> T_15_0)
        @@ (K_hhum :> T_45)
FullWeek ==
    (K_ret :> returnOk) @@ (K_today_runtime :> T_85) @@ (K_datas :> T_Week)

WireRecords(keys) ==
    UNION {{w \in [K -> ValTokens \cup DatasTokens] : \A k \in K : w[k] \in ValsFor(k)} :
             K \in {K \in SUBSET keys : Cardinality(K) <= MaxKeys}}

(***************************************************************************)
(* The session as constructed by the caller: an address, an optional       *)
(* token, a name, and no record fetched yet.  A pointer field is a         *)
(* sequence: <<>> is nil and <<r>> points to the record r.                 *)
(***************************************************************************)
Nil == <<>>
Ptr(r) == <<r>>

NewSession(token) ==
    [Address |-> "192.168.1.10", Token |-> token, Name |-> "Lounge",
     ControlInfo |-> Nil, SensorInfo |-> Nil, WeekPower |-> Nil]

\* the state in which a function is about to be applied to the input a
InitWith(a) ==
    /\ d = NewSession("")
    /\ pre = d
    /\ op = "init"
    /\ arg = a
    /\ res = [err |-> NoErr]

\* one call of a function that does not touch the session
Apply(o, a, r) ==
    /\ op' = o
    /\ arg' = a
    /\ res' = r
    /\ pre' = d
    /\ UNCHANGED d

(***************************************************************************)
(* SpecCodec: the decode methods applied to a token, and decode applied to *)
(* what setUrlValues emits.                                                *)
(***************************************************************************)
InitCodec == \E t \in Tokens : InitWith([tok |-> t])

DecodePower ==
    /\ op = "init"
    /\ \E old \in PowerValues :
          Apply("Power.decode", [old |-> old, tok |-> arg.tok],
                Power_decode(old, arg.tok))

DecodeMode ==
    /\ op = "init"
    /\ \E old \in {ModeAuto, ModeCool} :
          Apply("Mode.decode", [old |-> old, tok |-> arg.tok],
                Mode_decode(old, arg.tok))

DecodeFan ==
    /\ op = "init"
    /\ \E old \in {<<>>, FanSilent} :
          Apply("Fan.decode", [old |-> old, tok |-> arg.tok],
                Fan_decode(old, arg.tok))

DecodeFanDir ==
    /\ op = "init"
    /\ \E old \in {FanDirStopped, FanDirHorizontal} :
          Apply("FanDir.decode", [old |-> old, tok |-> arg.tok],
                FanDir_decode(old, arg.tok))

DecodeTemperature ==
    /\ op = "init"
    /\ Apply("Temperature.decode", [old |-> ZeroFloat, tok |-> arg.tok],
             Temperature_decode(ZeroFloat, arg.tok))

DecodeHumidity ==
    /\ op = "init"
    /\ \E old \in {0, 7} :
          Apply("Humidity.decode", [old |-> old, tok |-> arg.tok],
                Humidity_decode(old, arg.tok))

DecodeWattHours ==
    /\ op = "init"
    /\ \E old \in {0, 7} :
          Apply("WattHours.decode", [old |-> old, tok |-> arg.tok],
                WattHours_decode(old, arg.tok))

DecodeMinutes ==
    /\ op = "init"
    /\ \E old \in {0, 7} :
          Apply("Minutes.decode", [old |-> old, tok |-> arg.tok],
                Minutes_decode(old, arg.tok))

RoundTripPower ==
    /\ op = "init"
    /\ \E old \in PowerValues, v \in PowerValues :
          LET tok == Power_setUrlValues(v)[2]
          IN  Apply("Power.roundtrip", [old |-> old, val |-> v, tok |-> tok],
                    Power_decode(old, tok))

RoundTripMode ==
    /\ op = "init"
    /\ \E old \in ModeValues, v \in ModeValues :
          LET tok == Mode_setUrlValues(v)[2]
          IN  Apply("Mode.roundtrip", [old |-> old, val |-> v, tok |-> tok],
                    Mode_decode(old, tok))

RoundTripFan ==
    /\ op = "init"
    /\ \E old \in FanValues, v \in FanValues :
          LET tok == Fan_setUrlValues(v)[2]
          IN  Apply("Fan.roundtrip", [old |-> old, val |-> v, tok |-> tok],
                    Fan_decode(old, tok))

RoundTripFanDir ==
    /\ op = "init"
    /\ \E old \in FanDirValues, v \in FanDirValues :
          LET tok == FanDir_setUrlValues(v)[2]
          IN  Apply("FanDir.roundtrip", [old |-> old, val |-> v, tok |-> tok],
                    FanDir_decode(old, tok))

NextCodec ==
    \/ DecodePower
    \/ DecodeMode
    \/ DecodeFan
    \/ DecodeFanDir
    \/ DecodeTemperature
    \/ DecodeHumidity
    \/ DecodeWattHours
    \/ DecodeMinutes
    \/ RoundTripPower
    \/ RoundTripMode
    \/ RoundTripFan
    \/ RoundTripFanDir

SpecCodec == InitCodec /\ [][NextCodec]_vars

(***************************************************************************)
(* SpecParse: parseResponse applied to a response body, or to a response   *)
(* whose body cannot be read.                                              *)
(***************************************************************************)
InitParse ==
    \/ \E b \in Bodies : InitWith([readable |-> TRUE, body |-> b])
    \/ InitWith([readable |-> FALSE, body |-> <<>>])

ParseResponse ==
    /\ op = "init"
    /\ Apply("parseResponse", arg, parseResponse(arg))

NextParse == ParseResponse

SpecParse == InitParse /\ [][NextParse]_vars

(***************************************************************************)
(* SpecPopulate: the populate methods applied to a fresh record, a wire    *)
(* record and an iteration order of its keys.                              *)
(***************************************************************************)
InitPopulate ==
    \/ \E w \in WireRecords(ControlKeys) \cup {FullControl} :
          InitWith([type |-> "ControlInfo", values |-> w])
    \/ \E w \in WireRecords(SensorKeys) \cup {FullSensor} :
          InitWith([type |-> "SensorInfo", values |-> w])
    \/ \E w \in WireRecords(WeekKeys) \cup {FullWeek} :
          InitWith([type |-> "WeekPower", values |-> w])

PopulateControlInfo ==
    /\ op = "init"
    /\ arg.type = "ControlInfo"
    /\ \E o \in Orders(DOMAIN arg.values) :
          Apply("ControlInfo.populate", [values |-> arg.values, order |-> o],
                ControlInfo_populate(ZeroControlInfo, arg.values, o))

PopulateSensorInfo ==
    /\ op = "init"
    /\ arg.type = "SensorInfo"
    /\ \E o \in Orders(DOMAIN arg.values) :
          Apply("SensorInfo.populate", [values |-> arg.values, order |-> o],
                SensorInfo_populate(ZeroSensorInfo, arg.values, o))

PopulateWeekPower ==
    /\ op = "init"
    /\ arg.type = "WeekPower"
    /\ \E o \in Orders(DOMAIN arg.values) :
          Apply("WeekPower.populate", [values |-> arg.values, order |-> o],
                WeekPower_populate(ZeroWeekPower, arg.values, o))

NextPopulate ==
    \/ PopulateControlInfo
    \/ PopulateSensorInfo
    \/ PopulateWeekPower

SpecPopulate == InitPopulate /\ [][NextPopulate]_vars

(***************************************************************************)
(* Properties of the codecs (SpecCodec).                                   *)
(***************************************************************************)
EnumDecodeOps == {"Power.decode", "Mode.decode", "Fan.decode", "FanDir.decode"}
CounterDecodeOps == {"Humidity.decode", "WattHours.decode", "Minutes.decode"}
RoundTripOps == {"Power.roundtrip", "Mode.roundtrip", "Fan.roundtrip", "FanDir.roundtrip"}

\* the wire tokens of each enumerated field type
WireTokens(o) ==
    CASE o = "Power.decode" -> {<<"0">>, <<"1">>}
      [] o = "Mode.decode" ->
            {<<"0">>, <<"1">>, <<"2">>, <<"3">>, <<"4">>, <<"6">>, <<"7">>}
      [] o = "Fan.decode" ->
            {<<"A">>, <<"B">>, <<"3">>, <<"4">>, <<"5">>, <<"6">>, <<"7">>}
      [] o = "FanDir.decode" -> {<<"0">>, <<"1">>, <<"2">>, <<"3">>}

\* C5: decode of Power, Mode, Fan and FanDir succeeds on exactly the type's wire
\* tokens and returns an error on every other token, such as "01" or "+1".
C5_EnumDecodeAcceptsExactlyWireTokens ==
    op \in EnumDecodeOps =>
        ((res.err = NoErr) <=> (arg.tok \in WireTokens(op)))

\* C6: for every defined value V of Power, Mode, Fan and FanDir, decoding the token
\* that setUrlValues emits for V succeeds and yields V; the three Mode auto
\* variants stay distinct although each displays as "Auto".
C6_DecodeOfEncodeIsIdentity ==
    op \in RoundTripOps =>
        /\ res.err = NoErr
        /\ res.val = arg.val
        /\ (op = "Mode.roundtrip" /\ arg.val \in {ModeAuto, ModeAuto1, ModeAuto7}
                => Mode_String(res.val) = "Auto")

C6_Witness ==
    /\ op = "Mode.roundtrip"
    /\ arg = [old |-> ModeCool, val |-> ModeAuto7, tok |-> <<"7">>]
    /\ res = [err |-> NoErr, val |-> ModeAuto7]

\* C7: for Humidity, WattHours and Minutes, decode of "-" yields -1, and decode of
\* a token accepted as the decimal integer n stores exactly n, also for n outside
\* the 32-bit signed range.
C7_CounterDecodeStoresParsedInteger ==
    op \in CounterDecodeOps =>
        LET n == Atoi(Sentinel(arg.tok))
        IN  /\ arg.tok = <<"-">> => res.err = NoErr /\ res.val = -1
            /\ ~n.err => res.err = NoErr /\ Widen(res.val) = n

(***************************************************************************)
(* Properties of the response parser (SpecParse).                          *)
(***************************************************************************)
\* the mapping of the tokens from position i on, each split at its first "="
RECURSIVE MappingOf(_, _)
MappingOf(fields, i) ==
    IF i > Len(fields) THEN EmptyValues
    ELSE LET eq == IndexOf(fields[i], "=")
         IN  MappingOf(fields, i + 1)
                @@ (SubSeq(fields[i], 1, eq - 1)
                        :> SubSeq(fields[i], eq + 1, Len(fields[i])))

\* C8: parseResponse returns a malformed-response error and no mapping for every
\* body that is not exactly one CSV row or has a token without "=", returns the
\* mapping of the tokens split at their first "=" otherwise, and never panics.
C8_ParseResponseNeverPanics ==
    op = "parseResponse" /\ arg.readable =>
        LET r == ReadAll(arg.body)
            malformed ==
                \/ r.err
                \/ Len(r.records) # 1
                \/ \E i \in 1..Len(r.records[1]) : "=" \notin Range(r.records[1][i])
        IN  /\ res.err # Panic
            /\ malformed => res.err.kind = "malformed" /\ res.values = EmptyValues
            /\ ~malformed => res.err = NoErr /\ res.values = MappingOf(r.records[1], 1)

(***************************************************************************)
(* Properties of the populate methods (SpecPopulate).                      *)
(***************************************************************************)
PopulateOps == {"ControlInfo.populate", "SensorInfo.populate", "WeekPower.populate"}

\* whether v is a token the decoder of key k of the record type of o rejects
TokenRejected(o, k, v) ==
    CASE o = "ControlInfo.populate" /\ k = K_pow -> v \notin WireTokens("Power.decode")
      [] o = "ControlInfo.populate" /\ k = K_mode -> v \notin WireTokens("Mode.decode")
      [] o = "ControlInfo.populate" /\ k = K_f_rate -> v \notin WireTokens("Fan.decode")
      [] o = "ControlInfo.populate" /\ k = K_f_dir -> FanDir_decode(0, v).err # NoErr
      [] o = "ControlInfo.populate" /\ k = K_stemp -> ParseFloat(v).err
      [] o = "ControlInfo.populate" /\ k = K_shum -> Atoi(Sentinel(v)).err
      [] o = "SensorInfo.populate" /\ k \in {K_htemp, K_otemp} -> ParseFloat(v).err
      [] o = "SensorInfo.populate" /\ k = K_hhum -> Atoi(Sentinel(v)).err
      [] o = "WeekPower.populate" /\ k = K_today_runtime -> Atoi(Sentinel(v)).err
      [] OTHER -> FALSE

\* whether v is a `datas` list that does not have exactly 7 elements
DatasMiscounted(o, k, v) ==
    o = "WeekPower.populate" /\ k = K_datas /\ Len(Split(v, "/")) # 7

\* whether v is a `datas` list with an element that is no counter token
DatasElementRejected(o, k, v) ==
    /\ o = "WeekPower.populate"
    /\ k = K_datas
    /\ \E i \in 1..Len(Split(v, "/")) : Atoi(Sentinel(Split(v, "/")[i])).err

RetNotOk == K_ret \in DOMAIN arg.values /\ arg.values[K_ret] # returnOk

\* whether a key visited before `ret` fails by itself
FailsBeforeRet ==
    \E i \in 1..Len(arg.order) :
        /\ \A j \in 1..i : arg.order[j] # K_ret
        /\ \/ TokenRejected(op, arg.order[i], arg.values[arg.order[i]])
           \/ DatasMiscounted(op, arg.order[i], arg.values[arg.order[i]])

\* C2 as stated: whenever `ret` is not "OK", populate fails with the device-reported
\* error carrying the ret value, under every iteration order and whatever the
\* other keys hold.
C2_RetAlwaysSurfacesDeviceError ==
    op \in PopulateOps /\ RetNotOk => res.err = Err("device", arg.values[K_ret])

\* C2 as amended: whenever `ret` is not "OK", populate fails under every iteration
\* order; the error is the device-reported one carrying the ret value exactly when
\* no key visited before `ret` fails by itself, and that key's error otherwise.
C2_RetNotOkFails ==
    op \in PopulateOps /\ RetNotOk =>
        /\ res.err # NoErr
        /\ ~FailsBeforeRet => res.err = Err("device", arg.values[K_ret])
        /\ FailsBeforeRet => res.err.kind \in {"decode", "datas"}

C2_Witness ==
    /\ op = "ControlInfo.populate"
    /\ arg.values = (K_ret :> returnBad) @@ (K_pow :> <<"A">>)
    /\ arg.order = <<K_ret, K_pow>>
    /\ res.err = Err("device", returnBad)

\* the value WattHours.decode leaves in a fresh field for the element e
ElementValue(e) ==
    LET n == Atoi(Sentinel(e)) IN IF n.err THEN 0 ELSE Int32Of(n)

DatasApplied ==
    /\ op = "WeekPower.populate"
    /\ res.err = NoErr
    /\ K_datas \in DOMAIN arg.values

PastDaysFromDatas ==
    LET e == Split(arg.values[K_datas], "/")
    IN  /\ res.rec.SevenDaysAgoWattHours = ElementValue(e[1])
        /\ res.rec.SixDaysAgoWattHours = ElementValue(e[2])
        /\ res.rec.FiveDaysAgoWattHours = ElementValue(e[3])
        /\ res.rec.FourDaysAgoWattHours = ElementValue(e[4])
        /\ res.rec.ThreeDaysAgoWattHours = ElementValue(e[5])
        /\ res.rec.YesterdayWattHours = ElementValue(e[6])

\* C3 as stated: the elements of `datas` go to the past-day figures only, oldest
\* first up to YesterdayWattHours, and TodayWattHours keeps its default value.
C3_TodayNeverSetFromDatas ==
    DatasApplied => PastDaysFromDatas /\ res.rec.TodayWattHours = 0

\* C3 as amended: the elements of `datas` go, oldest first, to SevenDaysAgo,
\* SixDaysAgo, FiveDaysAgo, FourDaysAgo, ThreeDaysAgo and YesterdayWattHours, and
\* the seventh and last element goes to TodayWattHours.
C3_LastElementIsToday ==
    DatasApplied =>
        /\ PastDaysFromDatas
        /\ res.rec.TodayWattHours = ElementValue(Split(arg.values[K_datas], "/")[7])

C3_Witness ==
    /\ op = "WeekPower.populate"
    /\ arg.values = FullWeek
    /\ res.err = NoErr
    /\ res.rec.TodayRuntime = 85
    /\ res.rec.SevenDaysAgoWattHours = 5200
    /\ res.rec.YesterdayWattHours = 3900
    /\ res.rec.TodayWattHours = 1100

\* C9: if the value of any recognized key fails to decode, populate returns an
\* error under every iteration order; for WeekPower this includes a `datas` list
\* without exactly 7 elements and one with an element that is no counter token.
C9_AnyDecodeFailureAborts ==
    op \in PopulateOps =>
        ((\E k \in DOMAIN arg.values :
              \/ TokenRejected(op, k, arg.values[k])
              \/ DatasMiscounted(op, k, arg.values[k])
              \/ DatasElementRejected(op, k, arg.values[k]))
            => res.err # NoErr)

(***************************************************************************)
(* The session operations.  A response is what the device and the network  *)
(* give back: whether the connection succeeded, the status code, whether   *)
(* the body could be read, and the body.                                   *)
(***************************************************************************)
uriGetControlInfo ==
    <<"/", "a", "i", "r", "c", "o", "n", "/", "g", "e", "t", "_", "c", "o",
      "n", "t", "r", "o", "l", "_", "i", "n", "f", "o">>
uriGetSensorInfo ==
    <<"/", "a", "i", "r", "c", "o", "n", "/", "g", "e", "t", "_", "s", "e",
      "n", "s", "o", "r", "_", "i", "n", "f", "o">>
uriGetWeekPower ==
    <<"/", "a", "i", "r", "c", "o", "n", "/", "g", "e", "t", "_", "w", "e",
      "e", "k", "_", "p", "o", "w", "e", "r">>
uriSetControlInfo ==
    <<"/", "a", "i", "r", "c", "o", "n", "/", "s", "e", "t", "_", "c", "o",
      "n", "t", "r", "o", "l", "_", "i", "n", "f", "o">>

\* the body "k1=v1,k2=v2,..." of a sequence of <<key, value>> pairs
RECURSIVE WireBody(_)
WireBody(pairs) ==
    IF pairs = <<>> THEN <<>>
    ELSE Head(pairs)[1] \o <<"=">> \o Head(pairs)[2]
            \o (IF Len(pairs) > 1 THEN <<",">> ELSE <<>>) \o WireBody(Tail(pairs))

B_Control ==
    WireBody(<<<<K_ret, returnOk>>, <<K_pow, <<"1">>>>, <<K_mode, <<"3">>>>,
               <<K_stemp, T_23_0>>, <<K_shum, <<"-">>>>, <<K_f_rate, <<"A">>>>,
               <<K_f_dir, <<"3">>>>>>)
B_Sensor ==
    WireBody(<<<<K_ret, returnOk>>, <<K_htemp, T_21_5>>, <<K_otemp, T_15_0>>,
               <<K_hhum, T_45>>>>)
B_Week == WireBody(<<<<K_ret, returnOk>>, <<K_today_runtime, T_85>>, <<K_datas, T_Week>>>>)
B_Refused == WireBody(<<<<K_ret, returnBad>>>>)
B_Partial == WireBody(<<<<K_pow, <<"1">>>>, <<K_mode, <<"9">>>>>>)
B_ShortWeek == WireBody(<<<<K_ret, returnOk>>, <<K_datas, T_Week6>>>>)
B_NoEquals == K_ret
B_Empty == <<>>
B_TwoLines == WireBody(<<<<K_ret, returnOk>>>>) \o <<"\n">> \o WireBody(<<<<K_ret, returnOk>>>>)

SessionBodies ==
    {B_Control, B_Sensor, B_Week, B_Refused, B_Partial, B_ShortWeek, B_NoEquals,
     B_Empty, B_TwoLines}

\* the connection fails; the status is not 200; the body cannot be read; or the
\* device answers 200 with a body
Responses ==
    {r \in [conn : BOOLEAN, status : {0, 200, 500}, readable : BOOLEAN,
            body : SessionBodies] :
        \/ ~r.conn /\ r.status = 0 /\ ~r.readable /\ r.body = B_Empty
        \/ r.conn /\ r.status = 500 /\ r.readable /\ r.body = B_Empty
        \/ r.conn /\ r.status = 200 /\ ~r.readable /\ r.body = B_Empty
        \/ r.conn /\ r.status = 200 /\ r.readable}

NoRequest == [scheme |-> "", host |-> "", path |-> <<>>, uuid |-> ""]

\* Daikin.httpGet: the request sent and the error returned
httpGet(sess, path, resp) ==
    LET request == [scheme |-> IF sess.Token = "" THEN "http" ELSE "https",
                    host |-> sess.Address,
                    path |-> path,
                    uuid |-> sess.Token]
    IN  IF ~resp.conn THEN [err |-> Err("transport", path), request |-> request]
        ELSE IF resp.status # 200
             THEN [err |-> Err("transport", path), request |-> request]
             ELSE [err |-> NoErr, request |-> request]

\* what parseResponse returns for each response
Parsed == [resp \in Responses |-> parseResponse(resp)]

\* what the populate call of each fetch can return for a body, over every order
\* in which the range statement may visit the keys
ValuesOf(b) == parseResponse([readable |-> TRUE, body |-> b]).values

ControlInfo_populated ==
    [b \in SessionBodies |->
        {ControlInfo_populate(ZeroControlInfo, ValuesOf(b), o) :
            o \in Orders(DOMAIN ValuesOf(b))}]

SensorInfo_populated ==
    [b \in SessionBodies |->
        {SensorInfo_populate(ZeroSensorInfo, ValuesOf(b), o) :
            o \in Orders(DOMAIN ValuesOf(b))}]

WeekPower_populated ==
    [b \in SessionBodies |->
        {WeekPower_populate(ZeroWeekPower, ValuesOf(b), o) :
            o \in Orders(DOMAIN ValuesOf(b))}]

\* Daikin.GetControlInfo: the session and the result after the call, where
\* populated is what d.ControlInfo.populate(vals) does to the fresh record
GetControlInfo_call(sess, resp, populated) ==
    LET get == httpGet(sess, uriGetControlInfo, resp)
        fresh == [sess EXCEPT !.ControlInfo = Ptr(ZeroControlInfo)]
        parsed == Parsed[resp]
    IN  IF get.err # NoErr THEN [d |-> sess, res |-> get]
        ELSE IF parsed.err # NoErr
             THEN [d |-> fresh, res |-> [err |-> parsed.err, request |-> get.request]]
             ELSE [d |-> [fresh EXCEPT !.ControlInfo = Ptr(populated.rec)],
                   res |-> [err |-> populated.err, request |-> get.request]]

\* Daikin.GetSensorInfo
GetSensorInfo_call(sess, resp, populated) ==
    LET get == httpGet(sess, uriGetSensorInfo, resp)
        fresh == [sess EXCEPT !.SensorInfo = Ptr(ZeroSensorInfo)]
        parsed == Parsed[resp]
    IN  IF get.err # NoErr THEN [d |-> sess, res |-> get]
        ELSE IF parsed.err # NoErr
             THEN [d |-> fresh, res |-> [err |-> parsed.err, request |-> get.request]]
             ELSE [d |-> [fresh EXCEPT !.SensorInfo = Ptr(populated.rec)],
                   res |-> [err |-> populated.err, request |-> get.request]]

\* GetWeekPower with the assignment of GetSensorInfo left in
GetWeekPower_call_copied(sess, resp, populated) ==
    LET get == httpGet(sess, uriGetWeekPower, resp)
        fresh == [sess EXCEPT !.SensorInfo = Ptr(ZeroSensorInfo),
                              !.WeekPower = Ptr(ZeroWeekPower)]
        parsed == Parsed[resp]
    IN  IF get.err # NoErr THEN [d |-> sess, res |-> get]
        ELSE IF parsed.err # NoErr
             THEN [d |-> fresh, res |-> [err |-> parsed.err, request |-> get.request]]
             ELSE [d |-> [fresh EXCEPT !.WeekPower = Ptr(populated.rec)],
                   res |-> [err |-> populated.err, request |-> get.request]]

\* Daikin.GetWeekPower
GetWeekPower_call(sess, resp, populated) ==
    LET get == httpGet(sess, uriGetWeekPower, resp)
        fresh == [sess EXCEPT !.WeekPower = Ptr(ZeroWeekPower)]
        parsed == Parsed[resp]
    IN  IF get.err # NoErr THEN [d |-> sess, res |-> get]
        ELSE IF parsed.err # NoErr
             THEN [d |-> fresh, res |-> [err |-> parsed.err, request |-> get.request]]
             ELSE [d |-> [fresh EXCEPT !.WeekPower = Ptr(populated.rec)],
                   res |-> [err |-> populated.err, request |-> get.request]]

\* Daikin.SetControlInfo; urlValues dereferences d.ControlInfo, which panics
\* when no record was fetched yet; a key the map lacks reads as ""
SetControlInfo_call(sess, resp) ==
    IF sess.ControlInfo = Nil THEN [d |-> sess, res |-> [err |-> Panic, request |-> NoRequest]]
    ELSE LET qStr == urlValues(sess.ControlInfo[1])
             get == httpGet(sess, uriSetControlInfo \o <<"?">> \o Values_Encode(qStr), resp)
             parsed == Parsed[resp]
             v == IF K_ret \in DOMAIN parsed.values THEN parsed.values[K_ret] ELSE <<>>
         IN  IF get.err # NoErr THEN [d |-> sess, res |-> get]
             ELSE IF parsed.err # NoErr
                  THEN [d |-> sess, res |-> [err |-> parsed.err, request |-> get.request]]
                  ELSE IF v # returnOk
                       THEN [d |-> sess,
                             res |-> [err |-> Err("device", v), request |-> get.request]]
                       ELSE [d |-> sess, res |-> [err |-> NoErr, request |-> get.request]]

\* a call of a session operation whose effect is r
Call(o, resp, r) ==
    /\ d' = r.d
    /\ res' = r.res
    /\ pre' = d
    /\ op' = o
    /\ arg' = resp

GetControlInfo ==
    \E resp \in Responses :
        \E populated \in ControlInfo_populated[resp.body] :
            Call("GetControlInfo", resp, GetControlInfo_call(d, resp, populated))

GetSensorInfo ==
    \E resp \in Responses :
        \E populated \in SensorInfo_populated[resp.body] :
            Call("GetSensorInfo", resp, GetSensorInfo_call(d, resp, populated))

GetWeekPower ==
    \E resp \in Responses :
        \E populated \in WeekPower_populated[resp.body] :
            Call("GetWeekPower", resp, GetWeekPower_call(d, resp, populated))

SetControlInfo ==
    \E resp \in Responses :
        Call("SetControlInfo", resp, SetControlInfo_call(d, resp))

Init ==
    /\ d \in {NewSession(""), NewSession("uuid")}
    /\ pre = d
    /\ op = "init"
    /\ arg = <<>>
    /\ res = [err |-> NoErr]

Next ==
    \/ GetControlInfo
    \/ GetSensorInfo
    \/ GetWeekPower
    \/ SetControlInfo

Spec == Init /\ [][Next]_vars

(***************************************************************************)
(* Properties of the session operations (Spec).                            *)
(***************************************************************************)
FetchOps == {"GetControlInfo", "GetSensorInfo", "GetWeekPower"}

\* the record field a fetch operation is about
Fetched(o, sess) ==
    CASE o = "GetControlInfo" -> sess.ControlInfo
      [] o = "GetSensorInfo" -> sess.SensorInfo
      [] o = "GetWeekPower" -> sess.WeekPower

\* C1: when a fetch operation returns an error of any kind, the session's record
\* field holds exactly the value it held before the call (nil if it was never
\* fetched), so no empty or partially populated record is observable.
C1_FailedFetchKeepsRecord ==
    op \in FetchOps /\ res.err \notin {NoErr, Panic} => Fetched(op, d) = Fetched(op, pre)

\* the query string of the request that SetControlInfo sent
SentQuery == SubSeq(res.request.path, Len(uriSetControlInfo) + 2, Len(res.request.path))

SetSent ==
    /\ op = "SetControlInfo"
    /\ res.request # NoRequest
    /\ SubSeq(res.request.path, 1, Len(uriSetControlInfo) + 1)
          = uriSetControlInfo \o <<"?">>

\* "k1=t1&k2=t2&..." for a sequence of <<key, token>> pairs
RECURSIVE QueryOf(_)
QueryOf(pairs) ==
    IF pairs = <<>> THEN <<>>
    ELSE Head(pairs)[1] \o <<"=">> \o QueryEscape(Head(pairs)[2])
            \o (IF Len(pairs) > 1 THEN <<"&">> ELSE <<>>) \o QueryOf(Tail(pairs))

\* the wire tokens of the fields of the record c
PowToken(c) == Itoa(c.Power)
ModeToken(c) == Itoa(c.Mode)
FanToken(c) == c.Fan
FanDirToken(c) == Itoa(c.FanDir)
TemperatureToken(c) == FormatFloat1(c.Temperature)
HumidityToken(c) == Itoa(c.Humidity)

\* C4 as stated: the query string of the set operation holds exactly the six pairs
\* pow, mode, f_rate, f_dir, stemp, shum with the fields' wire tokens, in that order.
C4_QueryInFieldOrder ==
    SetSent =>
        LET c == pre.ControlInfo[1]
        IN  SentQuery = QueryOf(<<<<K_pow, PowToken(c)>>, <<K_mode, ModeToken(c)>>,
                                  <<K_f_rate, FanToken(c)>>, <<K_f_dir, FanDirToken(c)>>,
                                  <<K_stemp, TemperatureToken(c)>>,
                                  <<K_shum, HumidityToken(c)>>>>)

\* C4 as amended: the query string of the set operation holds exactly the six pairs
\* with the fields' wire tokens, in the order of their keys: f_dir, f_rate, mode,
\* pow, shum, stemp.
C4_QueryInKeyOrder ==
    SetSent =>
        LET c == pre.ControlInfo[1]
        IN  SentQuery = QueryOf(<<<<K_f_dir, FanDirToken(c)>>, <<K_f_rate, FanToken(c)>>,
                                  <<K_mode, ModeToken(c)>>, <<K_pow, PowToken(c)>>,
                                  <<K_shum, HumidityToken(c)>>,
                                  <<K_stemp, TemperatureToken(c)>>>>)

\* {On, Cool, Auto, Both, 23.0, -1} is sent as
\* /aircon/set_control_info?f_dir=3&f_rate=A&mode=3&pow=1&shum=-1&stemp=23.0
C4_Witness ==
    /\ op = "SetControlInfo"
    /\ res.err = NoErr
    /\ pre.ControlInfo =
          Ptr([Power |-> PowerOn, Mode |-> ModeCool, Fan |-> FanAuto,
               FanDir |-> FanDirBoth,
               Temperature |-> [neg |-> FALSE, int |-> <<"2", "3">>, frac |-> <<>>],
               Humidity |-> -1])
    /\ res.request.path =
        <<"/", "a", "i", "r", "c", "o", "n", "/", "s", "e", "t", "_", "c",
          "o", "n", "t", "r", "o", "l", "_", "i", "n", "f", "o", "?", "f",
          "_", "d", "i", "r", "=", "3", "&", "f", "_", "r", "a", "t", "e",
          "=", "A", "&", "m", "o", "d", "e", "=", "3", "&", "p", "o", "w",
          "=", "1", "&", "s", "h", "u", "m", "=", "-", "1", "&", "s", "t",
          "e", "m", "p", "=", "2", "3", ".", "0">>

\* C10: SetControlInfo leaves the three records unchanged whether it succeeds or
\* fails, and each fetch operation leaves the other two records, the Address, the
\* Token and the Name unchanged.
C10_OperationsChangeOnlyTheirRecord ==
    /\ op = "SetControlInfo" =>
          /\ d.ControlInfo = pre.ControlInfo
          /\ d.SensorInfo = pre.SensorInfo
          /\ d.WeekPower = pre.WeekPower
    /\ op \in FetchOps =>
          /\ d.Address = pre.Address /\ d.Token = pre.Token /\ d.Name = pre.Name
          /\ op # "GetControlInfo" => d.ControlInfo = pre.ControlInfo
          /\ op # "GetSensorInfo" => d.SensorInfo = pre.SensorInfo
          /\ op # "GetWeekPower" => d.WeekPower = pre.WeekPower

C10_Witness ==
    /\ op = "GetWeekPower"
    /\ res.err = NoErr
    /\ pre.ControlInfo # Nil
    /\ pre.SensorInfo # Nil /\ pre.SensorInfo # Ptr(ZeroSensorInfo)
    /\ pre.WeekPower = Nil
    /\ d.WeekPower # Nil
    /\ d.ControlInfo = pre.ControlInfo
    /\ d.SensorInfo = pre.SensorInfo

====
